---------------------------- MODULE Spec2Model ----------------------------
(***************************************************************************)
(* The negotiation marketplace and its agents as state machines:           *)
(*                                                                         *)
(*  - the Tetsy negotiation backend (src/Tetsy/backend/main.py) over its   *)
(*    SQLite store;                                                        *)
(*  - the protocol bridge: HostAgentExecutor                               *)
(*    (src/hosting_Agent/host_agent_executor.py) and TetsyAgentExecutor    *)
(*    (src/specialty_agents/tetsy_agent/agent_executor.py);                *)
(*  - the bridge's content part converters;                                *)
(*  - the seller agent's negotiation tool                                  *)
(*    (src/specialty_agents/tetsy_agent/agent.py);                         *)
(*  - the marketplace adapters: the tools of the Tetsy and eBay agents     *)
(*    (src/specialty_agents/tetsy_agent/tools/tetsy_api.py, agent.py,      *)
(*    src/specialty_agents/ebay_agent/agent.py) and the eBay publish       *)
(*    service they call (src/backend/ebay_api.py).                         *)
(*                                                                         *)
(* Every HTTP handler of the backend opens its own connection, runs its    *)
(* statements in one implicit transaction and commits once; a handler that *)
(* raises before conn.commit() drops the connection, which rolls the       *)
(* transaction back. A handler contains no await between get_db() and      *)
(* conn.commit(), so each handler's store section is one atomic step.      *)
(*                                                                         *)
(* Identifiers "neg-<ms>" and "msg-<ms>" are modelled by the millisecond   *)
(* reading <ms> itself; amounts are small naturals and SQL NULL / Python   *)
(* None is the value NULL.                                                 *)
(***************************************************************************)
EXTENDS Integers, Sequences, FiniteSets, TLC

\* ------------------------------------------------------------------ bounds

\* Last millisecond reading of the clock the model explores, within a
\* second.
MaxClock == 2

\* Last second the model lets the clock reach between two requests.
MaxSeconds == 1

\* Adapter calls made by the agents (the Tetsy executor's own tool calls
\* come on top, one per execute call at most).
MaxCalls == 2

\* Calls of the eBay publish service.
MaxPublished == 2

\* The number of requests in flight at the backend at the same time.
MaxHandlers == 2

\* Most negotiations the model lets start_negotiation create.
MaxNegotiations == 2

\* Most message rows the model lets the handlers insert under requests of
\* any shape.
MaxMessages == 2


\* Largest offer amount drawn as an input.
MaxAmount == 2

\* Most execute calls the model lets the request handler make.
MaxExecutions == 2

\* Most events the agent runtime yields to one execute call.
MaxEvents == 2

\* Most task ids the model lets the requests name.
MaxTasks == 2

\* Most content parts in one message or one runtime event.
MaxParts == 2


\* ------------------------------------------------------------- input sets

NULL == -1

BUYER_ID == "buyer-001"

Sellers == {"Tetsy", "seller-2"}

Amounts == 1..MaxAmount

AmountsOrNull == Amounts \cup {NULL}

\* Every id a request can name: the ids the store may hold, and so also ids
\* it does not hold.
NegIds == 0..MaxClock

\* The requests the event loop can hold at the same time.
Handlers == 1..MaxHandlers

\* request.type of SendMessageRequest / SellerMessageRequest is a free str.
Types == {"message", "offer", "counter_offer", "other"}

\* response.action of SellerOfferResponse is a free str; "message" is what
\* the seller agent's respond_to_message sends.
Actions == {"accept", "reject", "counter", "message", "accepted", "rejected"}

\* ------------------------------------------------------------------ state

VARIABLES
    negotiations,   \* table negotiations: id -> row
    messages,       \* table messages: rows in insertion (rowid) order
    clock,          \* latest reading of datetime.now(), in milliseconds
    last,           \* the latest request and the response it got
    executions,     \* the execute calls of the two agent executors
    emitted,        \* what each execute call put on its event queue
    sessions,       \* session service: context id -> create_session calls
    active_sessions,\* HostAgentExecutor._active_sessions
    cancelled,      \* the latest cancel call and how it ended
    given,          \* the content parts handed to the bridge's converters
    produced,       \* what the converters made of them
    decision,       \* the seller agent's latest answer to an offer
    calls,          \* the adapter calls made so far, in order
    requests,       \* the HTTP requests the adapter calls have sent
    reply,          \* what the latest adapter call returned or raised
    published,      \* the calls of publish_listing: SKU and how far it got
    ebay_time,      \* time.time() of the eBay publish service, in seconds
    handlers        \* the backend's request handlers in flight

\* The negotiation store and its latest response.
storeVars == <<negotiations, messages, clock, last>>

\* The protocol bridge: the executors, their event queues and sessions.
bridgeVars == <<executions, emitted, sessions, active_sessions, cancelled>>

\* The content parts under conversion.
partVars == <<given, produced>>

\* The seller agent's negotiation tool.
policyVars == <<decision>>

\* The marketplace adapters and the eBay publish service.
adapterVars == <<calls, requests, reply, published, ebay_time>>

\* The coroutines of the backend's event loop.
handlerVars == <<handlers>>

vars ==
    <<storeVars, bridgeVars, partVars, policyVars, adapterVars, handlerVars>>

\* What a step of one component leaves alone; a handler's store section is
\* also a step of its coroutine, which the handler's caller accounts for.
outsideStore == <<bridgeVars, partVars, policyVars, adapterVars>>

outsideBridge ==
    <<storeVars, partVars, policyVars, adapterVars, handlerVars>>

outsideParts ==
    <<storeVars, bridgeVars, policyVars, adapterVars, handlerVars>>

outsidePolicy ==
    <<storeVars, bridgeVars, partVars, adapterVars, handlerVars>>

outsideAdapters ==
    <<storeVars, bridgeVars, partVars, policyVars, handlerVars>>

\* ------------------------------------------------------------- the schema

\* negotiations.status CHECK constraint.
StatusCheck(s) == s \in {"pending", "accepted", "rejected", "counter"}

\* messages.type CHECK constraint.
TypeCheck(t) == t \in {"message", "offer", "counter_offer"}

\* messages.id PRIMARY KEY: an insert with an id already present is refused.
MessageIdFree(id) == \A i \in 1..Len(messages) : messages[i].id # id

\* negotiations.id PRIMARY KEY.
NegotiationIdFree(id) == id \notin DOMAIN negotiations

\* datetime.now().timestamp() * 1000: the ids count milliseconds.
MillisPerSecond == 1000

\* CURRENT_TIMESTAMP at clock reading t: SQLite's CURRENT_TIMESTAMP counts
\* whole seconds.
CURRENT_TIMESTAMP(t) == t \div MillisPerSecond

\* The clock readings a call of datetime.now() may return after reading t:
\* the model follows the first MaxClock milliseconds of a second.
Now(t) == {u \in {t, t + 1} : u % MillisPerSecond <= MaxClock}

\* A row of table messages.
MessageRow(id, nid, sender, senderType, type, amount) ==
    [id |-> id, negotiation_id |-> nid, sender_id |-> sender,
     sender_type |-> senderType, type |-> type, offer_amount |-> amount,
     timestamp |-> CURRENT_TIMESTAMP(id)]

\* NegotiationRow with the offer amount left out of the INSERT's column list.
NegotiationRow_NoOffer(seller, status, amount, t) ==
    [buyer_id |-> BUYER_ID, seller_id |-> seller, status |-> status,
     last_offer_amount |-> NULL, updated_at |-> CURRENT_TIMESTAMP(t)]

\* A row of table negotiations.
NegotiationRow(seller, status, amount, t) ==
    [buyer_id |-> BUYER_ID, seller_id |-> seller, status |-> status,
     last_offer_amount |-> amount, updated_at |-> CURRENT_TIMESTAMP(t)]

\* ------------------------------------------------------------- responses

\* What the model keeps of a request: the handler it was routed to, and the
\* requests that handler has sent to the seller agent's webhook.
Request(op) == [op |-> op, webhooks |-> 0]

\* return {"status": "success", ...}
Success(req) == req @@ [code |-> 200, detail |-> "success"]

\* except Exception as e: raise HTTPException(status_code=500, detail=str(e))
Error500(req, detail) == req @@ [code |-> 500, detail |-> detail]

\* ------------------------------------------------- protocol bridge: state

\* The execute calls, in the order the request handler makes them.
Executions == 1..MaxExecutions

\* context.task_id
Tasks == 1..MaxTasks

\* context.context_id, the session id of the run.
Contexts == {"abc", "def"}

\* What self.runner.run_async yields next: a final response, an
\* intermediate event without function calls, an event with function calls,
\* or an exception raised by the stream.
EventKinds == {"final", "text", "calls", "raise"}

\* The event streams of the runtime: a final response or an exception ends
\* the stream the executor sees.
Scripts ==
    {script \in UNION {[1..n -> EventKinds] : n \in 0..MaxEvents} :
        \A i \in 1..(Len(script) - 1) : script[i] \in {"text", "calls"}}

\* The user inputs the Tetsy executor tells apart: no "post ... listing",
\* a listing request without name or price, a listing request with both,
\* and a listing request whose price text float() refuses (e.g. "1.2.3").
Queries == {"other", "missing", "post", "badprice"}

\* An execute call that has not been made yet.
NoExecution ==
    [executor |-> "none", task |-> 0, context |-> "", pc |-> "idle",
     current_task |-> FALSE, input |-> <<>>, pos |-> 0, session |-> 0,
     response_text |-> "none", result |-> "none",
     requested |-> FALSE, passed |-> FALSE]

\* No cancel call made yet.
NoCancel ==
    [executor |-> "none", context |-> "", tracked |-> FALSE, error |-> "none"]

\* HostAgentExecutor.__init__ / TetsyAgentExecutor.__init__
BridgeInit ==
    /\ executions = [r \in Executions |-> NoExecution]
    /\ emitted = [r \in Executions |-> <<>>]
    /\ sessions = [c \in Contexts |-> 0]
    /\ active_sessions = {}
    /\ cancelled = NoCancel

\* --------------------------------------------------- content parts: state

\* Python's None where a string is expected.
None == "None"

\* No conversion asked for yet.
NoParts == [op |-> "none", parts |-> <<>>, error |-> "none"]

PartsInit ==
    /\ given = <<>>
    /\ produced = NoParts

\* -------------------------------------------------- seller policy: state

\* No offer answered yet.
NoDecision ==
    [asking_price |-> 0, offer_amount |-> 0, response_type |-> "none",
     counter_offer |-> NULL, sent |-> "none"]

PolicyInit == decision = NoDecision

\* ----------------------------------------------------- adapters: state

\* How an HTTP request ends for the client: a 2xx response, a 4xx / 5xx
\* response (raise_for_status raises httpx.HTTPStatusError), or no response
\* at all (httpx.RequestError).
Outcomes == {"2xx", "HTTPStatusError", "RequestError"}

\* Where a call of publish_listing returns: get_headers refused, business
\* policies missing, image URL without https, inventory item refused,
\* offer refused, publish refused, or the listing published.
Stages ==
    {"auth", "policies", "image", "inventory", "offer", "publish", "success"}

\* No adapter call made yet.
NoReply == [call |-> 0, result |-> "none"]

AdapterInit ==
    /\ calls = <<>>
    /\ requests = <<>>
    /\ reply = NoReply
    /\ published = <<>>
    /\ ebay_time = 0

\* ------------------------------------------------------------------- Init

\* No request in a slot of the event loop yet.
NoHandler ==
    [op |-> "none", nid |-> 0, amount |-> NULL, pc |-> "idle",
     concurrent |-> FALSE]

HandlersInit == handlers = [h \in Handlers |-> NoHandler]

Init ==
    /\ negotiations = [n \in {} |-> NULL]
    /\ messages = <<>>
    /\ clock = 0
    /\ last = Success(Request("init_db"))
    /\ BridgeInit
    /\ PartsInit
    /\ PolicyInit
    /\ AdapterInit
    /\ HandlersInit


\* --------------------------------------------------------- SQL statements

\* SELECT * FROM negotiations WHERE id = ? AND buyer_id = ?  (is a row found)
SelectForBuyer(nid) ==
    /\ nid \in DOMAIN negotiations
    /\ negotiations[nid].buyer_id = BUYER_ID

\* SELECT * FROM negotiations WHERE id = ? AND seller_id = ?  (is a row found)
SelectForSeller(nid, seller) ==
    /\ nid \in DOMAIN negotiations
    /\ negotiations[nid].seller_id = seller

\* INSERT INTO negotiations (...) VALUES (...)
InsertNegotiation(negs, id, row) ==
    [n \in DOMAIN negs \cup {id} |-> IF n = id THEN row ELSE negs[n]]

\* UpdateOffer without "status = 'pending'" in its SET list.
UpdateOffer_KeepsStatus(negs, nid, amount) ==
    [negs EXCEPT ![nid].last_offer_amount = amount]

\* UPDATE negotiations SET last_offer_amount = ?, status = 'pending' WHERE id = ?
UpdateOffer(negs, nid, amount) ==
    [negs EXCEPT ![nid].last_offer_amount = amount, ![nid].status = "pending"]

\* UPDATE negotiations SET status = ?, updated_at = CURRENT_TIMESTAMP WHERE id = ?
UpdateStatus(negs, nid, status, t) ==
    [negs EXCEPT ![nid].status = status,
                 ![nid].updated_at = CURRENT_TIMESTAMP(t)]

\* UpdateLastOffer with the statement left out.
UpdateLastOffer_Skipped(negs, nid, amount) == negs

\* UPDATE negotiations SET last_offer_amount = ? WHERE id = ?
UpdateLastOffer(negs, nid, amount) ==
    [negs EXCEPT ![nid].last_offer_amount = amount]

\* UPDATE negotiations SET status = ..., updated_at = CURRENT_TIMESTAMP
\*   WHERE id = ? AND buyer_id = ?      (no row matched: nothing is updated)
UpdateStatusForBuyer(negs, nid, status, t) ==
    [n \in DOMAIN negs |->
        IF n = nid /\ negs[n].buyer_id = BUYER_ID
        THEN [negs[n] EXCEPT !.status = status,
                             !.updated_at = CURRENT_TIMESTAMP(t)]
        ELSE negs[n]]

\* UPDATE negotiations SET status = ..., updated_at = CURRENT_TIMESTAMP
\*   WHERE id = ? AND seller_id = ?     (no row matched: nothing is updated)
UpdateStatusForSeller(negs, nid, seller, status, t) ==
    [n \in DOMAIN negs |->
        IF n = nid /\ negs[n].seller_id = seller
        THEN [negs[n] EXCEPT !.status = status,
                             !.updated_at = CURRENT_TIMESTAMP(t)]
        ELSE negs[n]]

\* status = response.action if response.action != "counter" else "counter"
StatusOfAction(action) == IF action # "counter" THEN action ELSE "counter"

\* The handler raised before conn.commit(): nothing it wrote is kept.
Rollback(t, resp) ==
    /\ UNCHANGED <<negotiations, messages>>
    /\ clock' = t
    /\ last' = resp
    /\ UNCHANGED outsideStore

\* conn.commit(): the handler's writes become the store.
Commit(negs, msgs, t, resp) ==
    /\ negotiations' = negs
    /\ messages' = msgs
    /\ clock' = t
    /\ last' = resp
    /\ UNCHANGED outsideStore

\* A handler that sent its notification again would post it twice.
AfterWebhook_Twice(req, webhookOk) ==
    [IF webhookOk THEN Success(req) ELSE Error500(req, "webhook")
        EXCEPT !.webhooks = 2]

\* await client.post("http://localhost:10001/webhook/message", ...) after the
\* commit: a failure of the seller agent's webhook raises into the handler's
\* except clause.
AfterWebhook(req, webhookOk) ==
    [IF webhookOk THEN Success(req) ELSE Error500(req, "webhook")
        EXCEPT !.webhooks = 1]

\* ------------------------------------------------------- buyer endpoints

\* POST /api/negotiations
start_negotiation(seller, amount) ==
    \E t1 \in Now(clock) : \E t2 \in Now(t1) :
        LET req == Request("start_negotiation")
        IN  IF ~NegotiationIdFree(t1) \/ ~MessageIdFree(t2)
            THEN Rollback(t2, Error500(req, "IntegrityError"))
            ELSE \E webhookOk \in BOOLEAN :
                 Commit(InsertNegotiation(negotiations, t1,
                            NegotiationRow(seller, "pending", amount, t1)),
                        Append(messages,
                            MessageRow(t2, t1, BUYER_ID, "buyer", "offer", amount)),
                        t2, AfterWebhook(req, webhookOk))

\* A send_message that took every message for an offer would update the
\* negotiation whatever the type.
send_message_AnyTypeIsOffer(nid, type, amount) ==
    \E t \in Now(clock) :
        LET req == Request("send_message")
        IN  IF ~SelectForBuyer(nid)
            THEN Rollback(t, Error500(req, "403: Not authorized"))
            ELSE IF ~MessageIdFree(t) \/ ~TypeCheck(type)
            THEN Rollback(t, Error500(req, "IntegrityError"))
            ELSE \E webhookOk \in BOOLEAN :
                 Commit(UpdateOffer(negotiations, nid, amount),
                        Append(messages,
                            MessageRow(t, nid, BUYER_ID, "buyer", type, amount)),
                        t, AfterWebhook(req, webhookOk))

\* POST /api/negotiations/{negotiation_id}/messages
send_message(nid, type, amount) ==
    \E t \in Now(clock) :
        LET req == Request("send_message")
        IN  IF ~SelectForBuyer(nid)
            THEN Rollback(t, Error500(req, "403: Not authorized"))
            ELSE IF ~MessageIdFree(t) \/ ~TypeCheck(type)
            THEN Rollback(t, Error500(req, "IntegrityError"))
            ELSE \E webhookOk \in BOOLEAN :
                 Commit(IF type = "offer"
                            THEN UpdateOffer(negotiations, nid, amount)
                            ELSE negotiations,
                        Append(messages,
                            MessageRow(t, nid, BUYER_ID, "buyer", type, amount)),
                        t, AfterWebhook(req, webhookOk))

\* POST /api/negotiations/{negotiation_id}/accept
buyer_accept_negotiation(nid) ==
    \E t \in Now(clock) :
        LET req == Request("buyer_accept_negotiation")
        IN  Commit(UpdateStatusForBuyer(negotiations, nid, "accepted", t),
                   messages, t, Success(req))

\* ------------------------------------------------------ seller endpoints

\* A handler that committed after its status UPDATE would keep the new
\* status when the statements that follow fail.
seller_respond_to_offer_CommitsStatus(seller, nid, action, counter_amount, hasMessage) ==
    \E t \in Now(clock) :
        LET req == Request("seller_respond_to_offer")
            status == StatusOfAction(action)
            updated == UpdateStatus(negotiations, nid, status, t)
        IN  IF ~SelectForSeller(nid, seller)
            THEN Rollback(t, Error500(req, "403: Not authorized"))
            ELSE IF ~StatusCheck(status)
            THEN Rollback(t, Error500(req, "IntegrityError"))
            ELSE IF action # "counter"
            THEN Commit(updated, messages, t, Success(req))
            ELSE IF ~hasMessage /\ counter_amount = NULL
            THEN Commit(updated, messages, t, Error500(req, "TypeError"))
            ELSE IF ~MessageIdFree(t)
            THEN Commit(updated, messages, t, Error500(req, "IntegrityError"))
            ELSE Commit(UpdateLastOffer(updated, nid, counter_amount),
                        Append(messages,
                            MessageRow(t, nid, seller, "seller", "counter_offer",
                                       counter_amount)),
                        t, Success(req))

\* POST /api/seller/{seller_id}/negotiations/{negotiation_id}/respond
seller_respond_to_offer(seller, nid, action, counter_amount, hasMessage) ==
    \E t \in Now(clock) :
        LET req == Request("seller_respond_to_offer")
            status == StatusOfAction(action)
        IN  IF ~SelectForSeller(nid, seller)
            THEN Rollback(t, Error500(req, "403: Not authorized"))
            ELSE IF ~StatusCheck(status)
            THEN Rollback(t, Error500(req, "IntegrityError"))
            ELSE IF action # "counter"
            THEN Commit(UpdateStatus(negotiations, nid, status, t),
                        messages, t, Success(req))
            \* response.message or f"I can do ${response.counter_amount:.2f}"
            ELSE IF ~hasMessage /\ counter_amount = NULL
            THEN Rollback(t, Error500(req, "TypeError"))
            ELSE IF ~MessageIdFree(t)
            THEN Rollback(t, Error500(req, "IntegrityError"))
            ELSE Commit(UpdateLastOffer(UpdateStatus(negotiations, nid, status, t),
                                        nid, counter_amount),
                        Append(messages,
                            MessageRow(t, nid, seller, "seller", "counter_offer",
                                       counter_amount)),
                        t, Success(req))

\* POST /api/seller/{seller_id}/negotiations/{negotiation_id}/message
seller_send_message(seller, nid, type) ==
    \E t \in Now(clock) :
        LET req == Request("seller_send_message")
        IN  IF ~MessageIdFree(t) \/ ~TypeCheck(type)
            THEN Rollback(t, Error500(req, "IntegrityError"))
            ELSE Commit(negotiations,
                        Append(messages,
                            MessageRow(t, nid, seller, "seller", type, NULL)),
                        t, Success(req))

\* POST /api/seller/{seller_id}/negotiations/{negotiation_id}/accept
seller_accept_offer(seller, nid) ==
    \E t \in Now(clock) :
        LET req == Request("seller_accept_offer")
        IN  Commit(UpdateStatusForSeller(negotiations, nid, seller, "accepted", t),
                   messages, t, Success(req))

\* POST /api/seller/{seller_id}/negotiations/{negotiation_id}/reject
seller_reject_offer(seller, nid) ==
    \E t \in Now(clock) :
        LET req == Request("seller_reject_offer")
        IN  Commit(UpdateStatusForSeller(negotiations, nid, seller, "rejected", t),
                   messages, t, Success(req))

\* ---------------------------------------------------------- specification

\* Under requests of any shape the model follows the store while it holds at
\* most MaxNegotiations negotiations and MaxMessages messages.
WithinBounds ==
    /\ Cardinality(DOMAIN negotiations') <= MaxNegotiations
    /\ Len(messages') <= MaxMessages

\* response.counter_amount and whether response.message is given: the handler
\* reads them only under action "counter", so only there are they varied.
CounterAmounts(action) == IF action = "counter" THEN AmountsOrNull ELSE {NULL}

CounterMessages(action) == IF action = "counter" THEN BOOLEAN ELSE {FALSE}

\* Requests of any shape: any id, any seller, any type or action string.
StartNegotiation ==
    /\ \E s \in Sellers, a \in Amounts : start_negotiation(s, a)
    /\ WithinBounds
    /\ UNCHANGED handlerVars

SendMessage ==
    /\ \E n \in NegIds, ty \in Types, a \in AmountsOrNull : send_message(n, ty, a)
    /\ WithinBounds
    /\ UNCHANGED handlerVars

BuyerAccept ==
    /\ \E n \in NegIds :
           buyer_accept_negotiation(n)
    /\ UNCHANGED handlerVars

SellerRespond ==
    /\ \E s \in Sellers, n \in NegIds, ac \in Actions :
          \E a \in CounterAmounts(ac), m \in CounterMessages(ac) :
              seller_respond_to_offer(s, n, ac, a, m)
    /\ WithinBounds
    /\ UNCHANGED handlerVars

SellerSendMessage ==
    /\ \E s \in Sellers, n \in NegIds, ty \in Types : seller_send_message(s, n, ty)
    /\ WithinBounds
    /\ UNCHANGED handlerVars

SellerAccept ==
    /\ \E s \in Sellers, n \in NegIds :
           seller_accept_offer(s, n)
    /\ UNCHANGED handlerVars

SellerReject ==
    /\ \E s \in Sellers, n \in NegIds :
           seller_reject_offer(s, n)
    /\ UNCHANGED handlerVars

Next ==
    \/ StartNegotiation
    \/ SendMessage
    \/ BuyerAccept
    \/ SellerRespond
    \/ SellerSendMessage
    \/ SellerAccept
    \/ SellerReject

Spec == Init /\ [][Next]_vars

\* Requests as the request models document them: the buyer sends a plain
\* message or an offer with its amount (SendMessageRequest), the owning
\* seller answers an existing negotiation with "accept" | "reject" |
\* "counter" and a counter amount (SellerOfferResponse), or sends a plain
\* message. The ids of the rows are the clock readings, so the clock bounds
\* the store.
Owner(n) == negotiations[n].seller_id

ClientStartNegotiation ==
    /\ \E s \in Sellers, a \in Amounts : start_negotiation(s, a)
    /\ UNCHANGED handlerVars

ClientSendMessage ==
    /\ \E n \in DOMAIN negotiations :
           \/ send_message(n, "message", NULL)
           \/ \E a \in Amounts : send_message(n, "offer", a)
    /\ UNCHANGED handlerVars

ClientBuyerAccept ==
    /\ \E n \in DOMAIN negotiations :
           buyer_accept_negotiation(n)
    /\ UNCHANGED handlerVars

ClientSellerRespond ==
    /\ \E n \in DOMAIN negotiations :
           \/ \E ac \in {"accept", "reject"} :
                 seller_respond_to_offer(Owner(n), n, ac, NULL, TRUE)
           \/ \E a \in Amounts, m \in BOOLEAN :
                 seller_respond_to_offer(Owner(n), n, "counter", a, m)
    /\ UNCHANGED handlerVars

ClientSellerSendMessage ==
    /\ \E n \in DOMAIN negotiations : seller_send_message(Owner(n), n, "message")
    /\ UNCHANGED handlerVars

ClientSellerAccept ==
    /\ \E n \in DOMAIN negotiations :
           seller_accept_offer(Owner(n), n)
    /\ UNCHANGED handlerVars

ClientSellerReject ==
    /\ \E n \in DOMAIN negotiations :
           seller_reject_offer(Owner(n), n)
    /\ UNCHANGED handlerVars

ClientNext ==
    \/ ClientStartNegotiation
    \/ ClientSendMessage
    \/ ClientBuyerAccept
    \/ ClientSellerRespond
    \/ ClientSellerSendMessage
    \/ ClientSellerAccept
    \/ ClientSellerReject

SpecClients == Init /\ [][ClientNext]_vars

\* The same requests with time passing between them: the backend serves
\* nothing for a second. The store is followed within the bounds of Spec.
Sleep ==
    /\ CURRENT_TIMESTAMP(clock) < MaxSeconds
    /\ clock' = clock + MillisPerSecond
    /\ UNCHANGED <<negotiations, messages, last>>
    /\ UNCHANGED outsideStore
    /\ UNCHANGED handlerVars

LaterStartNegotiation == ClientStartNegotiation /\ WithinBounds

LaterSendMessage == ClientSendMessage /\ WithinBounds

LaterBuyerAccept == ClientBuyerAccept /\ WithinBounds

LaterSellerRespond == ClientSellerRespond /\ WithinBounds

LaterSellerSendMessage == ClientSellerSendMessage /\ WithinBounds

LaterSellerAccept == ClientSellerAccept /\ WithinBounds

LaterSellerReject == ClientSellerReject /\ WithinBounds

LaterNext ==
    \/ Sleep
    \/ LaterStartNegotiation
    \/ LaterSendMessage
    \/ LaterBuyerAccept
    \/ LaterSellerRespond
    \/ LaterSellerSendMessage
    \/ LaterSellerAccept
    \/ LaterSellerReject

SpecSeconds == Init /\ [][LaterNext]_vars


\* ------------------------------------------------------------- the claims

\* accepted and rejected are the terminal states.
Terminal(status) == status \in {"accepted", "rejected"}

\* The thread of negotiation n: its messages, in insertion order.
Thread(msgs, n) == SelectSeq(msgs, LAMBDA m : m.negotiation_id = n)

\* The offer-bearing messages of negotiation n, in insertion order.
OfferThread(msgs, n) ==
    SelectSeq(msgs, LAMBDA m : m.negotiation_id = n
                               /\ m.type \in {"offer", "counter_offer"})

\* This step appended exactly one row to table messages and changed no other.
AppendedOne ==
    /\ Len(messages') = Len(messages) + 1
    /\ SubSeq(messages', 1, Len(messages)) = messages

\* The row this step appended.
NewMessage == messages'[Len(messages')]

\* This step wrote nothing to the store.
NothingWritten == UNCHANGED <<negotiations, messages>>

\* This step left every negotiation but n as it was.
OthersUnchanged(n) ==
    \A o \in DOMAIN negotiations \ {n} :
        o \in DOMAIN negotiations' /\ negotiations'[o] = negotiations[o]

\* This step is a call of a mutating seller endpoint by seller s on id n.
SellerCallOn(s, n) ==
    \/ \E ac \in Actions, a \in AmountsOrNull, m \in BOOLEAN :
            seller_respond_to_offer(s, n, ac, a, m)
    \/ \E ty \in Types : seller_send_message(s, n, ty)
    \/ seller_accept_offer(s, n)
    \/ seller_reject_offer(s, n)

\* This step is a call of a mutating endpoint on an existing id n.
CallOn(n) ==
    \/ \E ty \in Types, a \in AmountsOrNull : send_message(n, ty, a)
    \/ buyer_accept_negotiation(n)
    \/ \E s \in Sellers : SellerCallOn(s, n)

\* C1: in every reachable store state each negotiation's last_offer_amount
\* equals the offer_amount of the most recently appended message of type
\* offer or counter_offer in its thread, whoever sent it.
C1_LastOfferIsLatestOffer ==
    \A n \in DOMAIN negotiations :
        LET offers == OfferThread(messages, n)
        IN  Len(offers) > 0 =>
                negotiations[n].last_offer_amount = offers[Len(offers)].offer_amount

\* C2: once a negotiation's status is accepted or rejected, every later
\* mutating operation on it fails and leaves its status, last_offer_amount
\* and message list unchanged.
C2_TerminalFinality ==
    [][\A n \in DOMAIN negotiations :
          Terminal(negotiations[n].status) =>
              /\ negotiations'[n].status = negotiations[n].status
              /\ negotiations'[n].last_offer_amount = negotiations[n].last_offer_amount
              /\ Thread(messages', n) = Thread(messages, n)
              /\ CallOn(n) => last'.code # 200]_vars

\* C3: a successful start_negotiation with offer amount A creates exactly one
\* negotiation, with status pending and last_offer_amount = A, and appends
\* exactly one message, in that negotiation's thread, of type offer, sent by
\* the buyer, with offer_amount = A.
C3_StartCreatesPendingWithOffer ==
    [][last'.op = "start_negotiation" /\ last'.code = 200 =>
        \A s \in Sellers, a \in Amounts :
            start_negotiation(s, a) =>
                \E id \in DOMAIN negotiations' \ DOMAIN negotiations :
                    /\ DOMAIN negotiations' = DOMAIN negotiations \cup {id}
                    /\ OthersUnchanged(id)
                    /\ negotiations'[id].status = "pending"
                    /\ negotiations'[id].last_offer_amount = a
                    /\ negotiations'[id].seller_id = s
                    /\ AppendedOne
                    /\ NewMessage.negotiation_id = id
                    /\ NewMessage.type = "offer"
                    /\ NewMessage.sender_type = "buyer"
                    /\ NewMessage.sender_id = BUYER_ID
                    /\ NewMessage.offer_amount = a]_vars

\* C3 witness: a second negotiation has just been created with success.
C3_Witness ==
    /\ last.op = "start_negotiation"
    /\ last.code = 200
    /\ Cardinality(DOMAIN negotiations) = 2
    /\ Len(messages) = 2

C5_SellerAcceptRejectSucceed ==
    [][last'.op = "seller_respond_to_offer" =>
        \A n \in DOMAIN negotiations, m \in BOOLEAN :
            negotiations[n].status \in {"pending", "counter"} =>
                /\ seller_respond_to_offer(Owner(n), n, "accept", NULL, m)
                   => /\ last'.code = 200
                      /\ negotiations'[n].status = "accepted"
                      /\ messages' = messages
                /\ seller_respond_to_offer(Owner(n), n, "reject", NULL, m)
                   => /\ last'.code = 200
                      /\ negotiations'[n].status = "rejected"
                      /\ messages' = messages]_vars

C7_BuyerAcceptOnlyWhenCountered ==
    [][last'.op = "buyer_accept_negotiation" =>
        \A n \in DOMAIN negotiations :
            /\ negotiations[n].status # "counter"
            /\ buyer_accept_negotiation(n)
            => /\ last'.code # 200
               /\ negotiations'[n].status = negotiations[n].status]_vars

\* C8: a mutating seller operation called with a seller_id that is not the
\* negotiation's seller_id reports a failure to the caller and changes
\* neither the negotiation nor its message list.
C8_SellerOwnership ==
    [][\A n \in DOMAIN negotiations : \A s \in Sellers \ {Owner(n)} :
          SellerCallOn(s, n) =>
              /\ last'.code # 200
              /\ NothingWritten]_vars

\* C9: a mutating negotiation operation called with a negotiation_id that is
\* not in the store reports a failure to the caller, never a success, and
\* writes nothing.
C9_UnknownNegotiationFails ==
    [][\A n \in NegIds \ DOMAIN negotiations :
          CallOn(n) =>
              /\ last'.code # 200
              /\ NothingWritten]_vars

\* C10: seller_respond_to_offer with action counter and no counter_amount
\* fails, whether or not a message text is supplied, and leaves the
\* negotiation's status, last_offer_amount and message list unchanged.
C10_CounterNeedsAmount ==
    [][last'.op = "seller_respond_to_offer" =>
        \A s \in Sellers, n \in NegIds, m \in BOOLEAN :
            seller_respond_to_offer(s, n, "counter", NULL, m) =>
                /\ last'.code # 200
                /\ NothingWritten]_vars

\* C11: whenever start_negotiation or send_message answers with an error, the
\* store holds no negotiation row and no message row written by that request,
\* including when the failure is in the seller agent's webhook step.
C11_ErrorLeavesNothingWritten ==
    [][/\ last'.op \in {"start_negotiation", "send_message"}
       /\ last'.code # 200
       => NothingWritten]_vars

\* ============================================================ protocol bridge
\* src/hosting_Agent/host_agent_executor.py and
\* src/specialty_agents/tetsy_agent/agent_executor.py. Both executors run on
\* one asyncio loop: an execute call runs without interruption from one
\* await to the next, and other calls may run at every await. An execution's
\* pc names the await it has last returned from.

\* TaskUpdater.update_status / add_artifact / fail: the event is put on the
\* event queue of the execute call.
Emit(r, event) == [emitted EXCEPT ![r] = Append(@, event)]

\* context.current_task: the task store holds a task for context.task_id
\* once an event of that task has been processed.
current_task(t) ==
    \E q \in Executions : executions[q].task = t /\ emitted[q] # <<>>

\* agent_executor = TetsyAgentExecutor(); DefaultRequestHandler(
\* agent_executor=agent_executor, task_store=InMemoryTaskStore()): a server
\* holds one executor and one task store, so the calls of one behaviour all
\* go to the same executor.
Serving(executor) ==
    /\ \A q \in Executions : executions[q].executor \in {"none", executor}
    /\ cancelled.executor \in {"none", executor}

\* The request handler makes its execute calls one after the other. Task
\* ids and context ids are interchangeable names: the first call names
\* task 1 and context "abc".
NextCall(r, t, c) ==
    /\ executions[r].pc = "idle"
    /\ \A q \in Executions : q < r => executions[q].pc # "idle"
    /\ r = 1 => t = 1 /\ c = "abc"

\* An execute that announced every call as a new task would emit submitted
\* whatever the task store holds.
Begin_AlwaysSubmitted(r, executor, t, c, input) ==
    /\ NextCall(r, t, c)
    /\ Serving(executor)
    /\ executions' = [executions EXCEPT ![r] =
           [executor |-> executor, task |-> t, context |-> c,
            pc |-> "submitted", current_task |-> current_task(t),
            input |-> input, pos |-> 0, session |-> 0,
            response_text |-> "none", result |-> "none",
            requested |-> FALSE, passed |-> FALSE]]
    /\ emitted' = Emit(r, "submitted")
    /\ UNCHANGED <<sessions, active_sessions, cancelled>>
    /\ UNCHANGED outsideBridge

\* if not context.current_task: await updater.update_status(submitted);
\* otherwise the first await is update_status(working).
Begin(r, executor, t, c, input) ==
    LET prior == current_task(t)
    IN  /\ NextCall(r, t, c)
        /\ Serving(executor)
        /\ executions' = [executions EXCEPT ![r] =
               [executor |-> executor, task |-> t, context |-> c,
                pc |-> IF prior THEN "working" ELSE "submitted",
                current_task |-> prior, input |-> input, pos |-> 0,
                session |-> 0, response_text |-> "none",
                result |-> "none", requested |-> FALSE,
                passed |-> FALSE]]
        /\ emitted' = Emit(r, IF prior THEN "working" ELSE "submitted")
        /\ UNCHANGED <<sessions, active_sessions, cancelled>>
        /\ UNCHANGED outsideBridge

\* await updater.update_status(TaskState.working), after submitted.
update_status_working(r) ==
    /\ executions[r].pc = "submitted"
    /\ executions' = [executions EXCEPT ![r].pc = "working"]
    /\ emitted' = Emit(r, "working")
    /\ UNCHANGED <<sessions, active_sessions, cancelled>>
    /\ UNCHANGED outsideBridge

\* An exception leaves execute: nothing in HostAgentExecutor.execute
\* catches it.
Raised(r) == [executions EXCEPT ![r].pc = "raised"]

\* session_id = session_obj.id; self._active_sessions.add(session_id); the
\* run then waits for the first event of runner.run_async.
Running(r, session) ==
    [executions EXCEPT ![r].pc = "running", ![r].session = session]

\* ------------------------------------------------------ HostAgentExecutor

\* HostAgentExecutor.execute up to its first await.
HostExecute(r, t, c, script) == Begin(r, "host", t, c, script)

\* HostAgentExecutor.execute up to its first await, for a request that does
\* (requested) or does not name TRACEABILITY_EXTENSION_URI in
\* context.requested_extensions, called with (passed) or without a
\* response_trace argument.
HostExecuteWith(r, t, c, script, requested, passed) ==
    LET prior == current_task(t)
    IN  /\ NextCall(r, t, c)
        /\ Serving("host")
        /\ executions' = [executions EXCEPT ![r] =
               [executor |-> "host", task |-> t, context |-> c,
                pc |-> IF prior THEN "working" ELSE "submitted",
                current_task |-> prior, input |-> script, pos |-> 0,
                session |-> 0, response_text |-> "none",
                result |-> "none", requested |-> requested,
                passed |-> passed]]
        /\ emitted' = Emit(r, IF prior THEN "working" ELSE "submitted")
        /\ UNCHANGED <<sessions, active_sessions, cancelled>>
        /\ UNCHANGED outsideBridge

\* An execute that did not look at the requested extensions would trace
\* only when it was handed a trace.
response_trace_OnlyPassed(x) == x.passed

\* if TRACEABILITY_EXTENSION_URI in context.requested_extensions:
\* response_trace = ResponseTrace(); otherwise the argument, None by
\* default. `if response_trace:` in _process_request is taken for a trace
\* object and not for None.
response_trace(x) == x.requested \/ x.passed

\* The artifact of a final response: its converted parts and, with a
\* trace, TextPart(text=json.dumps(trace_artifact)) appended as last part.
Artifact(x) == IF response_trace(x) THEN "artifact+trace" ELSE "artifact"

\* An _upsert_session that did not look for the session would go on to
\* create_session on every call.
HostGetSession_AlwaysCreates(r, partsOk, serviceOk) ==
    /\ executions[r].executor = "host"
    /\ executions[r].pc = "working"
    /\ IF ~partsOk \/ ~serviceOk
       THEN executions' = Raised(r)
       ELSE executions' = [executions EXCEPT ![r].pc = "creating"]
    /\ UNCHANGED <<emitted, sessions, active_sessions, cancelled>>
    /\ UNCHANGED outsideBridge

\* execute converts the inbound parts (convert_a2a_part_to_genai raises
\* ValueError on a part it does not support) and calls _process_request,
\* which awaits session_service.get_session in _upsert_session. A session
\* that exists is returned and the run starts; otherwise _upsert_session
\* goes on to create_session.
HostGetSession(r, partsOk, serviceOk) ==
    LET c == executions[r].context
    IN  /\ executions[r].executor = "host"
        /\ executions[r].pc = "working"
        /\ IF ~partsOk \/ ~serviceOk
           THEN /\ executions' = Raised(r)
                /\ UNCHANGED active_sessions
           ELSE IF sessions[c] > 0
           THEN /\ executions' = Running(r, sessions[c])
                /\ active_sessions' = active_sessions \cup {c}
           ELSE /\ executions' = [executions EXCEPT ![r].pc = "creating"]
                /\ UNCHANGED active_sessions
        /\ UNCHANGED <<emitted, sessions, cancelled>>
        /\ UNCHANGED outsideBridge

\* session = await self.runner.session_service.create_session(...)
HostCreateSession(r, serviceOk) ==
    LET c == executions[r].context
    IN  /\ executions[r].executor = "host"
        /\ executions[r].pc = "creating"
        /\ IF ~serviceOk
           THEN /\ executions' = Raised(r)
                /\ UNCHANGED <<sessions, active_sessions>>
           ELSE /\ sessions' = [sessions EXCEPT ![c] = @ + 1]
                /\ executions' = Running(r, sessions[c] + 1)
                /\ active_sessions' = active_sessions \cup {c}
        /\ UNCHANGED <<emitted, cancelled>>
        /\ UNCHANGED outsideBridge

\* An event loop that announced every intermediate event would emit a
\* working status for an event with function calls as well.
HostEvent_AnnouncesCalls(r) ==
    LET c == executions[r].context
        n == executions[r].pos + 1
        script == executions[r].input
    IN  /\ executions[r].executor = "host"
        /\ executions[r].pc = "running"
        /\ IF n > Len(script)
           THEN /\ executions' = [executions EXCEPT ![r].pc = "returned"]
                /\ active_sessions' = active_sessions \ {c}
                /\ UNCHANGED emitted
           ELSE IF script[n] = "raise"
           THEN /\ executions' = Raised(r)
                /\ active_sessions' = active_sessions \ {c}
                /\ UNCHANGED emitted
           ELSE IF script[n] = "final"
           THEN /\ executions' = [executions EXCEPT ![r].pos = n,
                                                    ![r].pc = "artifact"]
                /\ emitted' = Emit(r, Artifact(executions[r]))
                /\ UNCHANGED active_sessions
           ELSE /\ executions' = [executions EXCEPT ![r].pos = n]
                /\ emitted' = Emit(r, "working+message")
                /\ UNCHANGED active_sessions
        /\ UNCHANGED <<sessions, cancelled>>
        /\ UNCHANGED outsideBridge

\* One turn of `async for event in self.runner.run_async(...)`, up to the
\* next await. The finally clause discards the session id when the loop is
\* left, by the end of the stream or by an exception.
HostEvent(r) ==
    LET c == executions[r].context
        n == executions[r].pos + 1
        script == executions[r].input
    IN  /\ executions[r].executor = "host"
        /\ executions[r].pc = "running"
        /\ IF n > Len(script)
           THEN /\ executions' = [executions EXCEPT ![r].pc = "returned"]
                /\ active_sessions' = active_sessions \ {c}
                /\ UNCHANGED emitted
           ELSE IF script[n] = "raise"
           THEN /\ executions' = Raised(r)
                /\ active_sessions' = active_sessions \ {c}
                /\ UNCHANGED emitted
           ELSE IF script[n] = "final"
           THEN /\ executions' = [executions EXCEPT ![r].pos = n,
                                                    ![r].pc = "artifact"]
                /\ emitted' = Emit(r, Artifact(executions[r]))
                /\ UNCHANGED active_sessions
           ELSE IF script[n] = "text"
           THEN /\ executions' = [executions EXCEPT ![r].pos = n]
                /\ emitted' = Emit(r, "working+message")
                /\ UNCHANGED active_sessions
           ELSE /\ executions' = [executions EXCEPT ![r].pos = n]
                /\ UNCHANGED <<emitted, active_sessions>>
        /\ UNCHANGED <<sessions, cancelled>>
        /\ UNCHANGED outsideBridge

\* await task_updater.update_status(TaskState.completed, final=True); break;
\* finally: self._active_sessions.discard(session_id)
HostComplete(r) ==
    /\ executions[r].executor = "host"
    /\ executions[r].pc = "artifact"
    /\ executions' = [executions EXCEPT ![r].pc = "returned"]
    /\ emitted' = Emit(r, "completed")
    /\ active_sessions' = active_sessions \ {executions[r].context}
    /\ UNCHANGED <<sessions, cancelled>>
    /\ UNCHANGED outsideBridge

\* A cancel that stopped the runs of the session would end them here.
HostCancel_Interrupts(c) ==
    /\ Serving("host")
    /\ executions' = [r \in Executions |->
           IF /\ executions[r].executor = "host"
              /\ executions[r].context = c
              /\ executions[r].pc \in {"running", "artifact"}
           THEN [executions[r] EXCEPT !.pc = "returned"]
           ELSE executions[r]]
    /\ active_sessions' = active_sessions \ {c}
    /\ cancelled' = [executor |-> "host", context |-> c,
                     tracked |-> c \in active_sessions,
                     error |-> "UnsupportedOperationError"]
    /\ UNCHANGED <<emitted, sessions>>
    /\ UNCHANGED outsideBridge

\* HostAgentExecutor.cancel: no await, one step.
HostCancel(c) ==
    /\ Serving("host")
    /\ active_sessions' = active_sessions \ {c}
    /\ cancelled' = [executor |-> "host", context |-> c,
                     tracked |-> c \in active_sessions,
                     error |-> "UnsupportedOperationError"]
    /\ UNCHANGED <<executions, emitted, sessions>>
    /\ UNCHANGED outsideBridge

\* --------------------------------------------- adapters: the HTTP client

\* An adapter call: the tool and who called it, execute call r of the
\* Tetsy executor or (0) an agent's language model.
Call(op, by) == [op |-> op, by |-> by]

\* A client that sent its request again after a failure would put it on
\* the wire twice.
post_Retrying(call, url) ==
    <<[call |-> call, url |-> url], [call |-> call, url |-> url]>>

\* response = await client.post(url, ...): the requests one such statement
\* puts on the wire for adapter call number `call`.
post(call, url) == <<[call |-> call, url |-> url]>>

\* tools.tetsy_api.post_listing_to_tetsy: the status of the dictionary it
\* returns. Every exception of the request is caught and reported in the
\* returned dictionary.
tetsy_api_post_listing_to_tetsy(outcome) ==
    IF outcome = "2xx" THEN "success" ELSE "error"

\* ----------------------------------------------------- TetsyAgentExecutor

\* TetsyAgentExecutor.execute up to its first await.
TetsyExecute(r, t, c, query) == Begin(r, "tetsy", t, c, <<query>>)

\* From update_status(working) to the next await. A price text that float()
\* refuses raises ValueError in _parse_listing_request; the except clause
\* of execute answers it with updater.fail. A listing with name and price
\* awaits post_listing_to_tetsy; every other input goes to add_artifact.
TetsyHandle(r) ==
    LET query == executions[r].input[1]
    IN  /\ executions[r].executor = "tetsy"
        /\ executions[r].pc = "working"
        /\ IF query = "badprice"
           THEN /\ executions' = [executions EXCEPT ![r].pc = "returned"]
                /\ emitted' = Emit(r, "failed")
           ELSE IF query = "post"
           THEN /\ executions' = [executions EXCEPT ![r].pc = "tool"]
                /\ UNCHANGED emitted
           ELSE /\ executions' = [executions EXCEPT
                       ![r].pc = "artifact",
                       ![r].response_text =
                           IF query = "missing"
                           THEN "Could not parse listing details"
                           ELSE "I can help you post listings on Tetsy"]
                /\ emitted' = Emit(r, "artifact")
        /\ UNCHANGED <<sessions, active_sessions, cancelled>>
        /\ UNCHANGED outsideBridge

\* result = await post_listing_to_tetsy(...), the tool of tools/tetsy_api;
\* response_text = f"Successfully posted listing: {result}", and
\* add_artifact is next. The tool returns a dictionary whatever happens to
\* its request, so the except clause around the call has nothing to catch.
TetsyTool(r, outcome) ==
    LET k == Len(calls) + 1
        result == tetsy_api_post_listing_to_tetsy(outcome)
    IN  /\ executions[r].executor = "tetsy"
        /\ executions[r].pc = "tool"
        /\ calls' = Append(calls, Call("tetsy_api.post_listing_to_tetsy", r))
        /\ requests' = requests \o post(k, "/api/listings")
        /\ reply' = [call |-> k, result |-> result]
        /\ executions' = [executions EXCEPT
               ![r].pc = "artifact",
               ![r].response_text = "Successfully posted listing",
               ![r].result = result]
        /\ emitted' = Emit(r, "artifact")
        /\ UNCHANGED <<sessions, active_sessions, cancelled>>
        /\ UNCHANGED <<published, ebay_time>>
        /\ UNCHANGED <<storeVars, partVars, policyVars, handlerVars>>

\* await updater.update_status(TaskState.completed, final=True)
TetsyComplete(r) ==
    /\ executions[r].executor = "tetsy"
    /\ executions[r].pc = "artifact"
    /\ executions' = [executions EXCEPT ![r].pc = "returned"]
    /\ emitted' = Emit(r, "completed")
    /\ UNCHANGED <<sessions, active_sessions, cancelled>>
    /\ UNCHANGED outsideBridge

\* TetsyAgentExecutor.cancel raises a2a.types.UnsupportedOperationError
\* itself, built with a positional argument. The host executor has to wrap
\* the same type in ServerError to raise it: it is a protocol data type of
\* the SDK, not an exception class, and then the statement ends in a
\* TypeError. The model admits both outcomes.
TetsyCancel(c, error) ==
    /\ Serving("tetsy")
    /\ error \in {"UnsupportedOperationError", "TypeError"}
    /\ cancelled' = [executor |-> "tetsy", context |-> c,
                     tracked |-> FALSE, error |-> error]
    /\ UNCHANGED <<executions, emitted, sessions, active_sessions>>
    /\ UNCHANGED outsideBridge

\* ----------------------------------------------- the bridge's specification

StartHost ==
    \E r \in Executions, t \in Tasks, c \in Contexts, script \in Scripts :
        HostExecute(r, t, c, script)

StartTetsy ==
    \E r \in Executions, t \in Tasks, c \in Contexts, query \in Queries :
        TetsyExecute(r, t, c, query)

Working == \E r \in Executions : update_status_working(r)

GetSession ==
    \E r \in Executions, partsOk \in BOOLEAN, serviceOk \in BOOLEAN :
        HostGetSession(r, partsOk, serviceOk)

CreateSession ==
    \E r \in Executions, serviceOk \in BOOLEAN : HostCreateSession(r, serviceOk)

RuntimeEvent == \E r \in Executions : HostEvent(r)

CompleteHost == \E r \in Executions : HostComplete(r)

HandleTetsy == \E r \in Executions : TetsyHandle(r)

ToolTetsy == \E r \in Executions, outcome \in Outcomes : TetsyTool(r, outcome)

CompleteTetsy == \E r \in Executions : TetsyComplete(r)

CancelHost == \E c \in Contexts : HostCancel(c)

CancelTetsy ==
    \E c \in Contexts, error \in {"UnsupportedOperationError", "TypeError"} :
        TetsyCancel(c, error)

BridgeNext ==
    \/ StartHost
    \/ StartTetsy
    \/ Working
    \/ GetSession
    \/ CreateSession
    \/ RuntimeEvent
    \/ CompleteHost
    \/ HandleTetsy
    \/ ToolTetsy
    \/ CompleteTetsy
    \/ CancelHost
    \/ CancelTetsy

SpecBridge == Init /\ [][BridgeNext]_vars

\* Execute call q has begun and has neither returned nor raised.
InFlight(q) == executions[q].pc \notin {"idle", "returned", "raised"}

\* A client that sends its next message of a conversation only after the
\* answer to the previous one: an execute call begins on a context id when
\* no other call on that id is in flight.
StartHostInTurn ==
    \E r \in Executions, t \in Tasks, c \in Contexts, script \in Scripts :
        /\ \A q \in Executions : InFlight(q) => executions[q].context # c
        /\ HostExecute(r, t, c, script)

\* The host executor serving such clients.
InTurnNext ==
    \/ StartHostInTurn
    \/ Working
    \/ GetSession
    \/ CreateSession
    \/ RuntimeEvent
    \/ CompleteHost
    \/ CancelHost

SpecInTurn == Init /\ [][InTurnNext]_vars

\* ------------------------------------------------- claims about the bridge

\* TaskState.completed and TaskState.failed.
Terminals == {"completed", "failed"}

\* Some execute call has emitted a terminal status for task t.
HasTerminal(t) ==
    \E q \in Executions :
        /\ executions[q].task = t
        /\ \E i \in 1..Len(emitted[q]) : emitted[q][i] \in Terminals

\* C12: for every task, across the execute calls of either executor (also a
\* second execute for a task that already exists), at most one terminal
\* status is emitted and nothing is emitted for the task after its terminal
\* status.
C12_NothingAfterTerminal ==
    [][\A r \in Executions :
          emitted'[r] # emitted[r] => ~HasTerminal(executions'[r].task)]_vars

\* C13: no exception of an internal step (session upsert, part conversion,
\* the runtime's event stream, a tool call) leaves execute, in either
\* executor: the step's failure is answered with a failed status instead.
C13_NoExceptionLeavesExecute ==
    \A r \in Executions : executions[r].pc # "raised"

\* The positions of event e in what execute call r has emitted.
Positions(r, e) == {i \in 1..Len(emitted[r]) : emitted[r][i] = e}

\* C14: within one execute, a task with no prior state gets submitted first
\* and working right after it; a task with prior state gets no submitted;
\* working is emitted before the session is resolved and before any runtime
\* event is consumed; completed or failed is only emitted after a working.
C14_StatusOrder ==
    \A r \in Executions :
        LET x == executions[r]
            e == emitted[r]
        IN  /\ x.pc # "idle" /\ ~x.current_task =>
                   /\ Positions(r, "submitted") = {1}
                   /\ Len(e) >= 2 => e[2] = "working"
            /\ x.current_task => Positions(r, "submitted") = {}
            /\ x.pc \in {"creating", "running", "artifact", "tool",
                         "returned", "raised"} \/ x.session # 0 \/ x.pos > 0
                   => Positions(r, "working") # {}
            /\ \A i \in Positions(r, "completed") \cup Positions(r, "failed") :
                   \E j \in Positions(r, "working") : j < i

\* C14 witness: a first execute of the host executor went from submitted
\* and working through an intermediate event to completed, and a second
\* execute, for the task that then existed, has completed too.
C14_Witness ==
    /\ emitted[1] = <<"submitted", "working", "working+message",
                      "artifact", "completed">>
    /\ executions[2].current_task
    /\ executions[2].pc = "returned"
    /\ emitted[2] = <<"working", "artifact", "completed">>

\* C15: two concurrent HostAgentExecutor.execute calls with the same new
\* context id lead to exactly one create_session call for that id, and both
\* run the runtime against the same session.
C15_OneSessionPerContext ==
    /\ \A c \in Contexts : sessions[c] <= 1
    /\ \A r, q \in Executions :
           /\ executions[r].session # 0
           /\ executions[q].session # 0
           /\ executions[r].context = executions[q].context
           => executions[r].session = executions[q].session

\* C16: cancel always ends by reporting an unsupported-operation error to
\* the caller and emits no task status event; after HostAgentExecutor.cancel
\* the cancelled session id is not in the active set.
C16_CancelIsUnsupported ==
    [][\A c \in Contexts :
          /\ HostCancel(c) =>
                 /\ cancelled'.error = "UnsupportedOperationError"
                 /\ emitted' = emitted
                 /\ c \notin active_sessions'
          /\ \A error \in {"UnsupportedOperationError", "TypeError"} :
                 TetsyCancel(c, error) =>
                     /\ cancelled'.error = "UnsupportedOperationError"
                     /\ emitted' = emitted]_vars

\* What the event loop of _process_request emits for the first n events of
\* a stream when nothing interferes with it.
RECURSIVE LoopEmits(_, _)
LoopEmits(script, n) ==
    IF n = 0 THEN <<>>
    ELSE LoopEmits(script, n - 1) \o
         (IF script[n] = "text" THEN <<"working+message">>
          ELSE IF script[n] = "final" THEN <<"artifact">>
          ELSE <<>>)

\* What an execute of the host executor emits, from its first status to its
\* return, when it is left alone.
Uninterrupted(x) ==
    (IF x.current_task THEN <<"working">> ELSE <<"submitted", "working">>)
    \o LoopEmits(x.input, Len(x.input))
    \o (IF x.input # <<>> /\ x.input[Len(x.input)] = "final"
        THEN <<"completed">> ELSE <<>>)

\* C17: a cancel issued while an execute for the same session is in flight
\* does not interrupt it: the run keeps consuming the runtime's events and
\* emits the status updates, the artifact and the completed status it emits
\* without the cancel.
C17_CancelDoesNotInterrupt ==
    \A r \in Executions :
        LET x == executions[r]
            u == Uninterrupted(x)
        IN  x.executor = "host" /\ x.pc # "raised" =>
                /\ Len(emitted[r]) <= Len(u)
                /\ emitted[r] = SubSeq(u, 1, Len(emitted[r]))
                /\ x.pc = "returned" =>
                       /\ x.pos = Len(x.input)
                       /\ emitted[r] = u

\* C17 witness: the only execute made was on a session that a cancel found
\* in the active set, so the cancel came while it was in flight, and it has
\* consumed an intermediate event and the final response and completed.
C17_Witness ==
    /\ cancelled.executor = "host"
    /\ cancelled.tracked
    /\ cancelled.context = executions[1].context
    /\ executions[2].pc = "idle"
    /\ executions[1].pc = "returned"
    /\ executions[1].input = <<"text", "final">>
    /\ emitted[1] = <<"submitted", "working", "working+message",
                      "artifact", "completed">>

\* ============================================================ content parts
\* convert_a2a_part_to_genai and convert_genai_part_to_a2a of
\* src/hosting_Agent/host_agent_executor.py, and the two places of the
\* bridge that apply them to the parts of a message or of a runtime event.

Texts == {"", "hi"}

Uris == {"gs://bucket/a.png"}

\* FileWithBytes.bytes / Blob.data
Payloads == {"", "aGk="}

MimeTypes == {None, "image/png"}

\* Python truthiness of an optional string.
Truthy(text) == text # None /\ text # ""

\* The part types of the A2A protocol. root tells a part wrapped as
\* Part(root=...) from the bare TextPart / FilePart object.
A2A(root, type, text, uri, bytes, mime_type) ==
    [root |-> root, type |-> type, text |-> text, uri |-> uri,
     bytes |-> bytes, mime_type |-> mime_type]

TextPart(text) == A2A(FALSE, "TextPart", text, None, None, None)

FileWithUri(uri, mime_type) ==
    A2A(FALSE, "FileWithUri", None, uri, None, mime_type)

FileWithBytes(bytes, mime_type) ==
    A2A(FALSE, "FileWithBytes", None, None, bytes, mime_type)

\* A part of the protocol that is neither text nor file.
DataPart == A2A(FALSE, "DataPart", None, None, None, None)

\* Part(root=part)
Part(part) == [part EXCEPT !.root = TRUE]

\* types.FileData / types.Blob, or the attribute left None.
Absent == [present |-> FALSE, value |-> None, mime_type |-> None]

FileData(file_uri, mime_type) ==
    [present |-> TRUE, value |-> file_uri, mime_type |-> mime_type]

Blob(data, mime_type) ==
    [present |-> TRUE, value |-> data, mime_type |-> mime_type]

\* types.Part(text=..., file_data=..., inline_data=...)
GenaiPart(text, file_data, inline_data) ==
    [text |-> text, file_data |-> file_data, inline_data |-> inline_data]

\* The bare part objects and the wrapped ones.
BareParts ==
    {TextPart(t) : t \in Texts}
    \cup {FileWithUri(u, m) : u \in Uris, m \in MimeTypes}
    \cup {FileWithBytes(b, m) : b \in Payloads, m \in MimeTypes}
    \cup {DataPart}

A2AParts == BareParts \cup {Part(p) : p \in BareParts}

\* The parts of the runtime: any of the three attributes may be set; a part
\* with none of them carries something else (a function call, say).
GenaiParts ==
    {GenaiPart(t, f, d) :
        t \in Texts \cup {None},
        f \in {Absent} \cup {FileData(u, m) : u \in Uris, m \in MimeTypes},
        d \in {Absent} \cup {Blob(b, m) : b \in Payloads, m \in MimeTypes}}

\* return value / raise
Return(part) == [error |-> "none", value |-> <<part>>]

Raise(error) == [error |-> error, value |-> <<>>]

\* part = part.root, then the isinstance cases.
convert_a2a_part_to_genai(part) ==
    IF ~part.root THEN Raise("AttributeError")
    ELSE IF part.type = "TextPart"
    THEN Return(GenaiPart(part.text, Absent, Absent))
    ELSE IF part.type = "FileWithUri"
    THEN Return(GenaiPart(None, FileData(part.uri, part.mime_type), Absent))
    ELSE IF part.type = "FileWithBytes"
    THEN Return(GenaiPart(None, Absent, Blob(part.bytes, part.mime_type)))
    ELSE Raise("ValueError")

\* if part.text: ... if part.file_data: ... if part.inline_data: ...
convert_genai_part_to_a2a(part) ==
    IF Truthy(part.text) THEN Return(TextPart(part.text))
    ELSE IF part.file_data.present
    THEN Return(FileWithUri(part.file_data.value, part.file_data.mime_type))
    ELSE IF part.inline_data.present
    THEN Return(Part(FileWithBytes(part.inline_data.value,
                                   part.inline_data.mime_type)))
    ELSE Raise("ValueError")

\* parts=[convert_a2a_part_to_genai(part) for part in context.message.parts]:
\* the first part that raises ends the comprehension.
RECURSIVE InboundParts(_)
InboundParts(parts) ==
    IF parts = <<>> THEN [error |-> "none", value |-> <<>>]
    ELSE LET head == convert_a2a_part_to_genai(parts[1])
             rest == InboundParts(Tail(parts))
         IN  IF head.error # "none" THEN head
             ELSE IF rest.error # "none" THEN rest
             ELSE [error |-> "none", value |-> head.value \o rest.value]

\* if (part.text or part.file_data or part.inline_data)
HasContent(part) ==
    Truthy(part.text) \/ part.file_data.present \/ part.inline_data.present

\* parts = [convert_genai_part_to_a2a(part) for part in event.content.parts
\*          if (part.text or part.file_data or part.inline_data)]
RECURSIVE EventParts(_)
EventParts(parts) ==
    IF parts = <<>> THEN [error |-> "none", value |-> <<>>]
    ELSE IF ~HasContent(parts[1]) THEN EventParts(Tail(parts))
    ELSE LET head == convert_genai_part_to_a2a(parts[1])
             rest == EventParts(Tail(parts))
         IN  IF head.error # "none" THEN head
             ELSE IF rest.error # "none" THEN rest
             ELSE [error |-> "none", value |-> head.value \o rest.value]

\* The result of an operation on the given parts.
Produce(op, parts, result) ==
    /\ given' = parts
    /\ produced' = [op |-> op, parts |-> result.value, error |-> result.error]
    /\ UNCHANGED outsideParts

\* One part of the protocol goes to the runtime's representation.
ToGenai(part) ==
    /\ produced.op = "none"
    /\ Produce("a2a_to_genai", <<part>>, convert_a2a_part_to_genai(part))

\* One part of the runtime goes to the protocol's representation.
ToA2A(part) ==
    /\ produced.op = "none"
    /\ Produce("genai_to_a2a", <<part>>, convert_genai_part_to_a2a(part))

\* The result of one converter is handed to the other.
Back ==
    /\ produced.error = "none"
    /\ \/ /\ produced.op = "a2a_to_genai"
          /\ Produce("a2a_round_trip", given,
                     convert_genai_part_to_a2a(produced.parts[1]))
       \/ /\ produced.op = "genai_to_a2a"
          /\ Produce("genai_round_trip", given,
                     convert_a2a_part_to_genai(produced.parts[1]))

\* execute converts the parts of the request's message.
InboundMessage(parts) ==
    /\ produced.op = "none"
    /\ Produce("inbound", parts, InboundParts(parts))

\* _process_request converts the parts of a runtime event.
RuntimeEventParts(parts) ==
    /\ produced.op = "none"
    /\ Produce("event", parts, EventParts(parts))

\* The part lists of at most MaxParts parts.
PartLists(S) == UNION {[1..n -> S] : n \in 0..MaxParts}

ConvertToGenai == \E part \in A2AParts : ToGenai(part)

ConvertToA2A == \E part \in GenaiParts : ToA2A(part)

ConvertBack == Back

ConvertInbound == \E parts \in PartLists(A2AParts) : InboundMessage(parts)

ConvertEvent == \E parts \in PartLists(GenaiParts) : RuntimeEventParts(parts)

PartsNext ==
    \/ ConvertToGenai
    \/ ConvertToA2A
    \/ ConvertBack
    \/ ConvertInbound
    \/ ConvertEvent

SpecParts == Init /\ [][PartsNext]_vars

\* ---------------------------------------------------- claims about parts

\* The text, file-by-reference and file-by-value parts of the protocol.
ContentA2A(part) ==
    part.root /\ part.type \in {"TextPart", "FileWithUri", "FileWithBytes"}

\* The same three shapes in the runtime: exactly one attribute is set.
ContentGenai(part) ==
    \/ part.text # None /\ ~part.file_data.present /\ ~part.inline_data.present
    \/ part.text = None /\ part.file_data.present /\ ~part.inline_data.present
    \/ part.text = None /\ ~part.file_data.present /\ part.inline_data.present

\* C18: the round trip of a content part through the two converters, in
\* either order, is lossless for every text part (the empty text too), every
\* file-by-reference part and every file-by-value part, and the result of
\* one converter is always an accepted input of the other.
C18_RoundTripLossless ==
    /\ produced.op \in {"a2a_to_genai", "a2a_round_trip"}
       /\ ContentA2A(given[1])
       => /\ produced.error = "none"
          /\ produced.op = "a2a_round_trip" => produced.parts = given
    /\ produced.op \in {"genai_to_a2a", "genai_round_trip"}
       /\ ContentGenai(given[1])
       => /\ produced.error = "none"
          /\ produced.op = "genai_round_trip" => produced.parts = given

\* C19: no content part is silently dropped: every inbound part of the
\* request and every part of a runtime event either appears converted in
\* the bridge's output or causes an error; a runtime part with none of text,
\* file_data, inline_data is an error and is not left out.
C19_NoPartDropped ==
    /\ produced.op = "inbound" =>
           \/ produced.error # "none"
           \/ /\ Len(produced.parts) = Len(given)
              /\ \A i \in 1..Len(given) :
                     convert_a2a_part_to_genai(given[i])
                         = Return(produced.parts[i])
    /\ produced.op = "event" =>
           \/ produced.error # "none"
           \/ /\ Len(produced.parts) = Len(given)
              /\ \A i \in 1..Len(given) :
                     convert_genai_part_to_a2a(given[i])
                         = Return(produced.parts[i])

\* ============================================================ seller policy
\* src/specialty_agents/tetsy_agent/agent.py. The source has no function
\* that computes the seller's decision: the rule (accept at 85% of the
\* asking price or more, otherwise counter at 90%) is text in the docstring
\* of respond_to_negotiation and in the instruction of root_agent, and the
\* decision is whatever arguments the language model of root_agent calls
\* the tool with. The tool sees neither the asking price nor the offer.

AskingPrices == {20, 100}

OfferAmounts == {16, 17, 70, 84, 85, 87}

\* response_type is a free str, counter_offer an Optional[float].
ResponseTypes == {"accept", "reject", "counter", "other"}

CounterOffers == {NULL, 18, 50, 90}

\* A respond_to_negotiation without its argument checks would post whatever
\* it was given.
respond_to_negotiation_Unchecked(response_type, counter_offer) ==
    IF response_type \in {"accept", "reject"} THEN response_type ELSE "counter"

\* respond_to_negotiation: the request it posts to the respond endpoint, or
\* the ValueError it raises.
respond_to_negotiation(response_type, counter_offer) ==
    IF response_type = "accept" THEN "accept"
    ELSE IF response_type = "reject" THEN "reject"
    ELSE IF response_type = "counter"
    THEN IF counter_offer = NULL THEN "ValueError" ELSE "counter"
    ELSE "ValueError"

\* root_agent answers a buyer's offer by a call of its tool.
root_agent(asking_price, offer_amount, response_type, counter_offer) ==
    /\ decision' =
           [asking_price |-> asking_price, offer_amount |-> offer_amount,
            response_type |-> response_type, counter_offer |-> counter_offer,
            sent |-> respond_to_negotiation(response_type, counter_offer)]
    /\ UNCHANGED outsidePolicy

AnswerOffer ==
    \E asking_price \in AskingPrices, offer_amount \in OfferAmounts,
       response_type \in ResponseTypes, counter_offer \in CounterOffers :
        root_agent(asking_price, offer_amount, response_type, counter_offer)

PolicyNext == AnswerOffer

SpecPolicy == Init /\ [][PolicyNext]_vars

\* C20: for every asking_price > 0 and every offer with
\* 0 < offer_amount < asking_price the seller's decision is accept iff
\* offer_amount / asking_price >= 0.85 and otherwise counter with
\* counter_amount = 0.90 x asking_price; the decision is defined for all
\* such inputs, and identical inputs give identical decisions.
C20_PolicyRule ==
    [][LET d == decision'
       IN  0 < d.offer_amount /\ d.offer_amount < d.asking_price =>
               /\ IF 100 * d.offer_amount >= 85 * d.asking_price
                  THEN d.sent = "accept"
                  ELSE /\ d.sent = "counter"
                       /\ 100 * d.counter_offer = 90 * d.asking_price
               /\ d.asking_price = decision.asking_price
                  /\ d.offer_amount = decision.offer_amount
                  => d = decision]_vars

\* ============================================== the store: further claims

\* C25: in every reachable store state each message's negotiation_id is the
\* id of an existing negotiation, and a message with sender_type seller has
\* the sender_id that is this negotiation's seller_id.
C25_ReferentialIntegrity ==
    \A i \in 1..Len(messages) :
        LET m == messages[i]
        IN  /\ m.negotiation_id \in DOMAIN negotiations
            /\ m.sender_type = "seller" =>
                   m.sender_id = negotiations[m.negotiation_id].seller_id

\* C26: in every reachable store state a message has a non-null
\* offer_amount if and only if its type is offer or counter_offer.
C26_OfferAmountIffOfferType ==
    \A i \in 1..Len(messages) :
        messages[i].offer_amount # NULL
            <=> messages[i].type \in {"offer", "counter_offer"}

\* This step is the buyer's or the owning seller's plain message on n.
PlainMessageOn(n) ==
    \/ /\ last'.op = "send_message"
       /\ \E a \in AmountsOrNull : send_message(n, "message", a)
    \/ /\ last'.op = "seller_send_message"
       /\ seller_send_message(Owner(n), n, "message")

C29_TimestampsStrictlyIncrease ==
    \A n \in DOMAIN negotiations :
        LET thread == Thread(messages, n)
        IN  \A i, j \in 1..Len(thread) :
                i < j => thread[i].timestamp < thread[j].timestamp

\* C28: every operation that changes a negotiation's status or
\* last_offer_amount also sets its updated_at to the current time, so that
\* updated_at is never older than the latest transition and never
\* decreases; a buyer send_message of type offer is such an operation.
C28_TransitionsSetUpdatedAt ==
    [][\A n \in DOMAIN negotiations :
          /\ negotiations'[n].updated_at >= negotiations[n].updated_at
          /\ \/ negotiations'[n].status # negotiations[n].status
             \/ negotiations'[n].last_offer_amount
                    # negotiations[n].last_offer_amount
             => negotiations'[n].updated_at = CURRENT_TIMESTAMP(clock')]_vars

\* ====================================== the seller policy: further claims

\* C21: every counter-offer amount the seller side submits through
\* respond_to_negotiation is at least 0.80 x the asking price and at least
\* the buyer's current offer amount.
C21_CounterAboveFloorAndOffer ==
    decision.sent = "counter" =>
        /\ 100 * decision.counter_offer >= 80 * decision.asking_price
        /\ decision.counter_offer >= decision.offer_amount

\* ========================================================== the adapters
\* The tools the agents' language models call
\* (src/specialty_agents/tetsy_agent/agent.py,
\* src/specialty_agents/ebay_agent/agent.py) and the eBay publish service
\* (src/backend/ebay_api.py). A tool awaits its request once; the call is
\* one step.

\* The adapter calls made by the agents' language models so far.
AgentCalls == {k \in 1..Len(calls) : calls[k].by = 0}

\* An agent's adapter call that sent `sent` and ended with `result`.
AgentCall(op, sent, result) ==
    /\ Cardinality(AgentCalls) < MaxCalls
    /\ calls' = Append(calls, Call(op, 0))
    /\ requests' = requests \o sent
    /\ reply' = [call |-> Len(calls) + 1, result |-> result]

\* What an agent tool makes of its request's outcome: its success text, or
\* the exception, which `except Exception as e: ... raise` passes on.
ReturnOrRaise(outcome, text) == IF outcome = "2xx" THEN text ELSE outcome

\* agent.post_listing_to_tetsy
agent_post_listing_to_tetsy(outcome) ==
    /\ AgentCall("agent.post_listing_to_tetsy",
                 post(Len(calls) + 1, "/api/agent/listings"),
                 ReturnOrRaise(outcome, "Successfully posted listing"))
    /\ UNCHANGED <<published, ebay_time>>
    /\ UNCHANGED outsideAdapters

\* agent.respond_to_negotiation: the ValueError of a counter without amount
\* or of an unknown response_type is raised before any request is sent.
respond_to_negotiation_request(response_type, counter_offer, outcome) ==
    /\ IF respond_to_negotiation(response_type, counter_offer) = "ValueError"
       THEN AgentCall("respond_to_negotiation", <<>>, "ValueError")
       ELSE AgentCall("respond_to_negotiation",
                      post(Len(calls) + 1, "/respond"),
                      ReturnOrRaise(outcome, "Successfully responded"))
    /\ UNCHANGED <<published, ebay_time>>
    /\ UNCHANGED outsideAdapters

\* agent.respond_to_message
respond_to_message(outcome) ==
    /\ AgentCall("respond_to_message", post(Len(calls) + 1, "/respond"),
                 ReturnOrRaise(outcome, "Successfully sent message"))
    /\ UNCHANGED <<published, ebay_time>>
    /\ UNCHANGED outsideAdapters

\* test_sku = f"AGENT{int(time.time())}": the SKU is the second of the call.
test_sku(seconds) == seconds

\* publish_listing run to the return of `stage`: the table of its calls
\* afterwards.
Published(stage) ==
    Append(published, [sku |-> test_sku(ebay_time), stage |-> stage])

\* POST /publish of the eBay service, by any client.
publish_listing(stage) ==
    /\ Len(published) < MaxPublished
    /\ published' = Published(stage)
    /\ UNCHANGED <<calls, requests, reply, ebay_time>>
    /\ UNCHANGED outsideAdapters

\* ebay_agent.publish_to_ebay: the publish request and, when the service
\* reports success, the request that saves the item to the local database
\* (whose failure is logged and ignored). The service answers every request
\* it handles with a result dictionary; a request that fails never reached
\* publish_listing.
publish_to_ebay(outcome, stage) ==
    LET k == Len(calls) + 1
    IN  /\ IF outcome # "2xx"
           THEN /\ AgentCall("publish_to_ebay", post(k, "/publish"), outcome)
                /\ UNCHANGED published
           ELSE /\ Len(published) < MaxPublished
                /\ published' = Published(stage)
                /\ IF stage = "success"
                   THEN AgentCall("publish_to_ebay",
                                  post(k, "/publish")
                                      \o post(k, "/api/add_item"),
                                  "Successfully published listing to eBay!")
                   ELSE AgentCall("publish_to_ebay", post(k, "/publish"),
                                  "Failed to publish listing")
        /\ UNCHANGED ebay_time
        /\ UNCHANGED outsideAdapters

\* A second passes at the eBay service.
Tick ==
    /\ ebay_time < MaxSeconds
    /\ ebay_time' = ebay_time + 1
    /\ UNCHANGED <<calls, requests, reply, published>>
    /\ UNCHANGED outsideAdapters

CallPostListing == \E outcome \in Outcomes : agent_post_listing_to_tetsy(outcome)

CallRespondToNegotiation ==
    \E response_type \in ResponseTypes, counter_offer \in CounterOffers,
       outcome \in Outcomes :
        respond_to_negotiation_request(response_type, counter_offer, outcome)

CallRespondToMessage == \E outcome \in Outcomes : respond_to_message(outcome)

CallPublishToEbay ==
    \E outcome \in Outcomes, stage \in Stages : publish_to_ebay(outcome, stage)

PublishListing == \E stage \in Stages : publish_listing(stage)

\* The adapters at work: the Tetsy executor with its tool, and the agents'
\* tools.
AdapterNext ==
    \/ StartTetsy
    \/ Working
    \/ HandleTetsy
    \/ ToolTetsy
    \/ CompleteTetsy
    \/ CallPostListing
    \/ CallRespondToNegotiation
    \/ CallRespondToMessage
    \/ CallPublishToEbay

SpecAdapters == Init /\ [][AdapterNext]_vars

\* The eBay publish service with its clients, over the seconds of its
\* clock.
EbayNext ==
    \/ CallPublishToEbay
    \/ PublishListing
    \/ Tick

SpecEbay == Init /\ [][EbayNext]_vars

\* --------------------------------------------- claims about the adapters

\* The endpoints of the marketplace backends; /api/add_item is the local
\* item database.
MarketplaceUrls == {"/api/listings", "/api/agent/listings", "/respond",
                    "/publish"}

\* The requests adapter call k has sent to a marketplace backend.
RequestsOf(k) ==
    {i \in 1..Len(requests) :
        requests[i].call = k /\ requests[i].url \in MarketplaceUrls}

\* C22: no implicit retry. One call of an adapter operation sends at most
\* one request to the marketplace backend, whether it succeeds or fails,
\* and one execute call of the Tetsy executor invokes post_listing_to_tetsy
\* at most once.
C22_NoImplicitRetry ==
    /\ \A k \in 1..Len(calls) : Cardinality(RequestsOf(k)) <= 1
    /\ \A r \in Executions :
           Cardinality({k \in 1..Len(calls) : calls[k].by = r}) <= 1

\* C22 witness: an execute call has returned after its tool's request
\* failed, and an agent's adapter call has raised: each sent one request.
C22_Witness ==
    /\ \E r \in Executions :
           /\ executions[r].pc = "returned"
           /\ executions[r].result = "error"
           /\ \E k \in 1..Len(calls) :
                  calls[k].by = r /\ Cardinality(RequestsOf(k)) = 1
    /\ reply.result \in {"HTTPStatusError", "RequestError"}
    /\ Cardinality(RequestsOf(reply.call)) = 1

\* The inventory item of a call of publish_listing was put under its SKU.
PutInventory(call) == call.stage \in {"offer", "publish", "success"}

\* C23: any two calls of publish_listing, two calls within the same clock
\* second included, use different SKUs, so that a later call never
\* overwrites the inventory item of an earlier one.
C23_FreshSku ==
    \A i, j \in 1..Len(published) :
        i < j /\ PutInventory(published[i]) /\ PutInventory(published[j])
            => published[i].sku # published[j].sku

\* C24: when the backend request of post_listing_to_tetsy has failed, the
\* execute call never emits an artifact whose text reports the listing as
\* successfully posted.
C24_FailureIsNotReportedAsSuccess ==
    \A r \in Executions :
        /\ executions[r].result = "error"
        /\ \E i \in 1..Len(emitted[r]) : emitted[r][i] = "artifact"
        => executions[r].response_text # "Successfully posted listing"

\* ========================================== the bridge: further claims

\* C30: for execute calls on one session id that do not overlap in time,
\* _upsert_session calls create_session only on the first use of the id,
\* and every later call gets the session that exists, which is neither
\* created again nor replaced; the bridge never deletes a session.
C30_SequentialUpsertIdempotent ==
    [][\A c \in Contexts :
          /\ sessions'[c] >= sessions[c]
          /\ sessions'[c] <= 1
          /\ \A r \in Executions :
                 executions'[r].context = c /\ executions'[r].session > 0
                     => executions'[r].session = 1]_vars

\* C30 witness: two execute calls on the same session id have run one after
\* the other to their end, both on the session the first of them created.
C30_Witness ==
    /\ \A r \in Executions :
           /\ executions[r].executor = "host"
           /\ executions[r].context = "abc"
           /\ executions[r].pc = "returned"
           /\ executions[r].session = 1
    /\ sessions["abc"] = 1

\* ============================================ the store: notifications

\* This step is a call of start_negotiation or of send_message: the store's
\* latest response is the answer to one.
BuyerAction ==
    /\ last'.op \in {"start_negotiation", "send_message"}
    /\ storeVars' # storeVars

\* C35: the webhook request for a buyer action is sent only after the
\* action's writes have been committed, exactly once per successful
\* start_negotiation or send_message, and never for a request that was
\* rejected before the commit.
C35_WebhookAfterCommitOnce ==
    [][BuyerAction =>
          /\ last'.webhooks \in {0, 1}
          /\ last'.webhooks = 1 <=> AppendedOne
          /\ last'.code = 200 => last'.webhooks = 1
          /\ NothingWritten => last'.webhooks = 0]_vars

\* C35 witness: a send_message has committed its message and then sent the
\* one webhook request, which failed.
C35_Witness ==
    /\ last.op = "send_message"
    /\ last.code = 500
    /\ last.detail = "webhook"
    /\ last.webhooks = 1
    /\ Len(messages) = 2

\* C36: in start_negotiation, send_message of type offer and
\* seller_respond_to_offer with action counter, the message insert and the
\* write of the negotiation's status and last_offer_amount are committed
\* together: a handler that fails before its commit leaves neither of them
\* in the store.
C36_AtomicAppend ==
    [][/\ last'.op = "start_negotiation" /\ storeVars' # storeVars =>
              \/ NothingWritten
              \/ /\ AppendedOne
                 /\ DOMAIN negotiations'
                        = DOMAIN negotiations \cup {NewMessage.negotiation_id}
                 /\ NewMessage.negotiation_id \notin DOMAIN negotiations
                 /\ negotiations'[NewMessage.negotiation_id].last_offer_amount
                        = NewMessage.offer_amount
       /\ last'.op = "send_message" /\ storeVars' # storeVars =>
              \/ NothingWritten
              \/ /\ AppendedOne
                 /\ IF NewMessage.type = "offer"
                    THEN LET row == negotiations'[NewMessage.negotiation_id]
                         IN  /\ row.last_offer_amount = NewMessage.offer_amount
                             /\ row.status = "pending"
                    ELSE negotiations' = negotiations
       /\ last'.op = "seller_respond_to_offer" /\ storeVars' # storeVars =>
              \/ NothingWritten
              \/ /\ AppendedOne
                 /\ LET row == negotiations'[NewMessage.negotiation_id]
                    IN  /\ row.last_offer_amount = NewMessage.offer_amount
                        /\ row.status = "counter"
              \/ /\ messages' = messages
                 /\ \A n \in DOMAIN negotiations :
                        negotiations'[n].status # "counter"
                            \/ negotiations'[n] = negotiations[n]]_vars

\* C36 witness: a counter of the owning seller has failed after its status
\* UPDATE, on the text of its message, and the negotiation it was for is
\* still pending with the buyer's offer.
C36_Witness ==
    /\ last.op = "seller_respond_to_offer"
    /\ last.detail = "TypeError"
    /\ Len(messages) = 1
    /\ negotiations[messages[1].negotiation_id].status = "pending"
    /\ negotiations[messages[1].negotiation_id].last_offer_amount
           = messages[1].offer_amount

\* ================================ the seller agent's tools, end to end
\* respond_to_negotiation and respond_to_message of
\* src/specialty_agents/tetsy_agent/agent.py together with the endpoint of
\* src/Tetsy/backend/main.py they post to.

\* seller_id: str = "Tetsy", the default of both tools.
AGENT_SELLER_ID == "Tetsy"

\* class SellerOfferResponse(BaseModel): the fields without a default.
SellerOfferResponse == {"negotiation_id", "seller_id", "action"}

\* json={"action": ..., "message": ...} and, for a counter,
\* "counter_amount": the fields of the body respond_to_negotiation posts.
respond_to_negotiation_json(response_type) ==
    {"action", "message"}
        \cup (IF response_type = "counter" THEN {"counter_amount"} ELSE {})

\* json={"action": "message", "message": message}
respond_to_message_json == {"action", "message"}

\* validation_exception_handler: status 422 with exc.errors(), which carry
\* the body that was received; the model keeps its action.
Unprocessable(req, action) == req @@ [code |-> 422, detail |-> action]

\* POST /api/seller/{seller_id}/negotiations/{negotiation_id}/respond with a
\* body of the fields `json`: the body is validated against
\* SellerOfferResponse before seller_respond_to_offer is called.
respond(seller, nid, json, action, counter_amount) ==
    IF ~(SellerOfferResponse \subseteq json)
    THEN /\ last' = Unprocessable(Request("seller_respond_to_offer"), action)
         /\ UNCHANGED <<negotiations, messages, clock>>
         /\ UNCHANGED outsideStore
    ELSE seller_respond_to_offer(seller, nid, action, counter_amount,
                                 "message" \in json)

\* respond_to_negotiation(negotiation_id, response_type, counter_offer=...)
\* up to the answer of the backend, for arguments that pass its own checks.
respond_to_negotiation_to(nid, response_type, counter_offer) ==
    LET action == respond_to_negotiation(response_type, counter_offer)
    IN  /\ action # "ValueError"
        /\ respond(AGENT_SELLER_ID, nid,
                   respond_to_negotiation_json(response_type), action,
                   counter_offer)

\* A respond_to_message that went to the seller's accept endpoint would
\* change the negotiation.
respond_to_message_to_Accepts(nid) == seller_accept_offer(AGENT_SELLER_ID, nid)

\* respond_to_message(negotiation_id, message) up to the answer of the
\* backend.
respond_to_message_to(nid) ==
    respond(AGENT_SELLER_ID, nid, respond_to_message_json, "message", NULL)

ToolRespondToNegotiation ==
    /\ \E n \in DOMAIN negotiations :
           \/ \E response_type \in {"accept", "reject"} :
                 respond_to_negotiation_to(n, response_type, NULL)
           \/ \E a \in Amounts : respond_to_negotiation_to(n, "counter", a)
    /\ UNCHANGED handlerVars

ToolRespondToMessage ==
    /\ \E n \in DOMAIN negotiations : respond_to_message_to(n)
    /\ UNCHANGED handlerVars

\* The buyer's client and the seller agent on one store.
EndToEndNext ==
    \/ ClientStartNegotiation
    \/ ClientSendMessage
    \/ ClientBuyerAccept
    \/ ToolRespondToNegotiation
    \/ ToolRespondToMessage

SpecEndToEnd == Init /\ [][EndToEndNext]_vars

\* The status the store is to hold after the seller's answer.
StatusAfter(response_type) ==
    CASE response_type = "accept" -> "accepted"
      [] response_type = "reject" -> "rejected"
      [] response_type = "counter" -> "counter"

\* C33: when respond_to_negotiation is called with accept, reject, or
\* counter with amount C for an existing non-terminal negotiation owned by
\* the agent's seller, the backend's respond endpoint accepts the request
\* and the store ends in the corresponding state: accepted, rejected, or
\* countered with last_offer_amount = C.
C33_AgentResponseReachesStore ==
    [][last'.op = "seller_respond_to_offer" =>
        \A n \in DOMAIN negotiations,
           response_type \in {"accept", "reject", "counter"}, C \in Amounts :
            /\ Owner(n) = AGENT_SELLER_ID
            /\ ~Terminal(negotiations[n].status)
            /\ respond_to_negotiation_to(n, response_type,
                   IF response_type = "counter" THEN C ELSE NULL)
            => /\ last'.code = 200
               /\ negotiations'[n].status = StatusAfter(response_type)
               /\ response_type = "counter" =>
                      negotiations'[n].last_offer_amount = C]_vars

\* C34: after respond_to_message on any negotiation, that negotiation's
\* status and last_offer_amount are what they were before the call.
C34_MessagePathKeepsState ==
    [][\A n \in DOMAIN negotiations :
          respond_to_message_to(n) =>
              /\ negotiations'[n].status = negotiations[n].status
              /\ negotiations'[n].last_offer_amount
                     = negotiations[n].last_offer_amount]_vars

\* C34 witness: the agent has answered a buyer's offer through
\* respond_to_message, and the negotiation is still pending with that offer.
C34_Witness ==
    /\ last.op = "seller_respond_to_offer"
    /\ last.detail = "message"
    /\ Len(messages) = 2
    /\ messages[2].type = "offer"
    /\ LET row == negotiations[messages[2].negotiation_id]
       IN  /\ row.seller_id = AGENT_SELLER_ID
           /\ row.status = "pending"
           /\ row.last_offer_amount = messages[2].offer_amount

\* ============================================= the agent's argument checks

\* The arguments respond_to_negotiation refuses: a counter without
\* counter_offer, and a response_type that is none of the three.
Refused(response_type, counter_offer) ==
    \/ response_type = "counter" /\ counter_offer = NULL
    \/ response_type \notin {"accept", "reject", "counter"}

\* The agents' tools alone, called one after another.
ToolsNext ==
    \/ CallPostListing
    \/ CallRespondToNegotiation
    \/ CallRespondToMessage
    \/ CallPublishToEbay

SpecTools == Init /\ [][ToolsNext]_vars

\* C40: respond_to_negotiation called with response_type "counter" and no
\* counter_offer, or with a response_type other than accept, reject and
\* counter, raises an error without sending any request, and the store with
\* its negotiations is unchanged.
C40_RefusedBeforeAnyRequest ==
    [][calls' # calls =>
        \A response_type \in ResponseTypes, counter_offer \in CounterOffers,
           outcome \in Outcomes :
            /\ Refused(response_type, counter_offer)
            /\ respond_to_negotiation_request(response_type, counter_offer,
                                              outcome)
            => /\ reply'.result = "ValueError"
               /\ reply'.call = Len(calls')
               /\ requests' = requests
               /\ storeVars' = storeVars]_vars

\* C40 witness: the second call of the agent's tools was a refused
\* respond_to_negotiation, and the only request on the wire is the one the
\* first call sent.
C40_Witness ==
    /\ Len(calls) = 2
    /\ calls[2].op = "respond_to_negotiation"
    /\ reply = [call |-> 2, result |-> "ValueError"]
    /\ Len(requests) = 1
    /\ requests[1].call = 1

\* ======================================== the bridge: sessions and endings

\* Execute call r of the host executor is in _process_request between the
\* resolution of its session and the end of its run.
InRun(r) ==
    /\ executions[r].executor = "host"
    /\ executions[r].pc \in {"running", "artifact"}

\* C38: a session id is in _active_sessions exactly while at least one
\* _process_request for it is between session resolution and its end, also
\* with concurrent executes on the same session id and with cancel; the set
\* is empty whenever no execute is in flight.
C38_ActiveExactlyWhileRunning ==
    /\ \A c \in Contexts :
           c \in active_sessions <=>
               \E r \in Executions : InRun(r) /\ executions[r].context = c
    /\ (\A r \in Executions : ~InFlight(r)) => active_sessions = {}

\* C39: every execute of the host executor whose runtime stream has ended
\* has, by the time it returns, left its task in a terminal state, also
\* when the stream ended without a final response.
C39_ReturnedMeansTerminal ==
    \A r \in Executions :
        executions[r].executor = "host" /\ executions[r].pc = "returned" =>
            \E i \in 1..Len(emitted[r]) : emitted[r][i] \in Terminals

\* ============================================ the bridge: the event stream

\* The event streams of a runtime that goes on yielding after a final
\* response: any sequence of final responses, intermediate events and
\* events with function calls.
Streams ==
    UNION {[1..n -> {"final", "text", "calls"}] : n \in 0..MaxEvents}

\* An execute call on such a stream, made when the call before it is over.
StartHostStream ==
    /\ \A q \in Executions : ~InFlight(q)
    /\ \E r \in Executions, t \in Tasks, c \in Contexts, script \in Streams,
          requested \in BOOLEAN, passed \in BOOLEAN :
           HostExecuteWith(r, t, c, script, requested, passed)

\* The host executor on such streams, one call at a time, with and without
\* tracing.
StreamNext ==
    \/ StartHostStream
    \/ Working
    \/ GetSession
    \/ CreateSession
    \/ RuntimeEvent
    \/ CompleteHost

SpecStreams == Init /\ [][StreamNext]_vars

\* C31: the runtime's events are processed strictly in the order they are
\* yielded; each non-final event without function calls produces exactly one
\* working status update (carrying the event's converted parts), and each
\* non-final event with function calls produces no status update and no
\* artifact.
C31_OneUpdatePerIntermediateEvent ==
    [][\A r \in Executions :
          LET x == executions[r]
              n == x.pos + 1
          IN  /\ x.executor = "host" /\ executions'[r].pos # x.pos =>
                     /\ executions'[r].pos = n
                     /\ n <= Len(x.input)
                     /\ x.input[n] = "text" =>
                            emitted'[r] = Append(emitted[r], "working+message")
                     /\ x.input[n] = "calls" => emitted'[r] = emitted[r]
              /\ /\ x.executor = "host"
                 /\ Len(emitted'[r]) > Len(emitted[r])
                 /\ emitted'[r][Len(emitted'[r])] = "working+message"
                 => executions'[r].pos = n /\ x.input[n] = "text"]_vars

\* C31 witness: an execute has consumed an intermediate event and then an
\* event with function calls, and has emitted one status update for the
\* two.
C31_Witness ==
    /\ executions[1].executor = "host"
    /\ executions[1].input = <<"text", "calls">>
    /\ executions[1].pos = 2
    /\ executions[1].pc = "running"
    /\ emitted[1] = <<"submitted", "working", "working+message">>

\* The stream holds a final response.
HasFinal(script) == \E k \in 1..Len(script) : script[k] = "final"

\* The place of the first final response of a stream that holds one.
FirstFinal(script) ==
    CHOOSE k \in 1..Len(script) :
        script[k] = "final" /\ \A j \in 1..(k - 1) : script[j] # "final"

\* C32: on the first final-response event the bridge emits exactly one
\* artifact immediately followed by the completed status and consumes no
\* further runtime events; the artifact carries the execution-trace payload
\* as its last part if and only if the traceability extension was requested
\* or a trace was passed in.
C32_FirstFinalEndsTheRun ==
    \A r \in Executions :
        LET x == executions[r]
            k == FirstFinal(x.input)
            e == emitted[r]
        IN  x.executor = "host" /\ HasFinal(x.input) =>
                /\ x.pos <= k
                /\ x.pc = "returned" =>
                       /\ x.pos = k
                       /\ Len(e) >= 2
                       /\ e[Len(e)] = "completed"
                       /\ e[Len(e) - 1] \in {"artifact", "artifact+trace"}
                       /\ e[Len(e) - 1] = "artifact+trace"
                              <=> x.requested \/ x.passed
                       /\ \A i \in 1..(Len(e) - 2) :
                              e[i] \notin {"artifact", "artifact+trace",
                                           "completed"}

\* C32 witness: an execute that requested the traceability extension has
\* returned from a stream whose final response was followed by another
\* event, with the traced artifact and completed, and nothing for the event
\* after the final response.
C32_Witness ==
    /\ executions[1].executor = "host"
    /\ executions[1].input = <<"final", "text">>
    /\ executions[1].requested
    /\ ~executions[1].passed
    /\ executions[1].pc = "returned"
    /\ executions[1].pos = 1
    /\ emitted[1] = <<"submitted", "working", "artifact+trace", "completed">>

\* ================================================ the store: concurrency
\* uvicorn.run(app, port=8050) serves the backend with one event loop. Every
\* handler is an `async def`: its coroutine runs, once scheduled, to its
\* next await or to its return before any other coroutine runs.

\* The requests that race on a negotiation: a buyer's offer, a seller's
\* counter, a seller's acceptance.
RacingOps == {"send_message", "seller_respond_to_offer", "seller_accept_offer"}

\* Most messages the model lets racing requests store.
MaxRacingMessages == 3

\* A request for negotiation nid has been read and its handler's coroutine
\* created; it has not run yet.
Arrive(h, op, nid, amount) ==
    /\ handlers[h].pc = "idle"
    /\ \A g \in Handlers : g < h => handlers[g].pc # "idle"
    /\ handlers' = [handlers EXCEPT ![h] =
           [op |-> op, nid |-> nid, amount |-> amount, pc |-> "accepted",
            concurrent |->
                \E g \in Handlers :
                    handlers[g].pc = "accepted" /\ handlers[g].nid = nid]]
    /\ UNCHANGED storeVars
    /\ UNCHANGED outsideStore

\* The store section of handler h, from get_db() to conn.commit() and
\* conn.close() or to the exception before them, on the store as it is now.
StoreSection(h) ==
    LET x == handlers[h]
    IN  CASE x.op = "send_message" -> send_message(x.nid, "offer", x.amount)
          [] x.op = "seller_respond_to_offer" ->
                 seller_respond_to_offer(Owner(x.nid), x.nid, "counter",
                                         x.amount, TRUE)
          [] x.op = "seller_accept_offer" ->
                 seller_accept_offer(Owner(x.nid), x.nid)

\* A coroutine that gave up control after its first statement, the write
\* of the status, would leave its section half done for the others to see.
Run_Suspending(h) ==
    /\ handlers[h].pc = "accepted"
    /\ handlers' = [handlers EXCEPT ![h].pc = "section"]
    /\ negotiations' =
           UpdateStatus(negotiations, handlers[h].nid, "counter", clock)
    /\ UNCHANGED <<messages, clock, last>>
    /\ UNCHANGED outsideStore

\* The event loop runs the coroutine of handler h: there is no await
\* between get_db() and conn.commit(), so the whole store section is one
\* step. send_message then awaits the post of its webhook, whose outcome the
\* model draws with the step that sends it; the seller's handlers return.
Run(h) ==
    /\ handlers[h].pc = "accepted"
    /\ StoreSection(h)
    /\ Len(messages') <= MaxRacingMessages
    /\ handlers' = [handlers EXCEPT ![h].pc =
           IF last'.webhooks = 1 THEN "awaiting" ELSE "answered"]

\* The webhook's answer has come: the handler returns its response.
Resume(h) ==
    /\ handlers[h].pc = "awaiting"
    /\ handlers' = [handlers EXCEPT ![h].pc = "answered"]
    /\ UNCHANGED storeVars
    /\ UNCHANGED outsideStore

RequestArrives ==
    \E h \in Handlers, op \in RacingOps, nid \in DOMAIN negotiations :
        \E amount \in IF op = "seller_accept_offer" THEN {NULL} ELSE Amounts :
            Arrive(h, op, nid, amount)

RunHandler == \E h \in Handlers : Run(h)

ResumeHandler == \E h \in Handlers : Resume(h)

\* Negotiations are started, and requests on them arrive while others are
\* in flight.
RacingNext ==
    \/ ClientStartNegotiation
    \/ RequestArrives
    \/ RunHandler
    \/ ResumeHandler

SpecRacing == Init /\ [][RacingNext]_vars

\* The tables of the store.
Tables == <<negotiations, messages>>

\* C37: with any requests in flight on the same negotiation at the same
\* time, no handler is ever suspended between its first store read and its
\* commit: the store changes only by the whole store section of one handler
\* at a time, applied to the store the previous section left, so the final
\* store is what the sections give one after another in the order they ran.
C37_SectionsRunOneAfterAnother ==
    [][/\ \A h \in Handlers :
              handlers'[h].pc \in {"idle", "accepted", "awaiting", "answered"}
       /\ Tables' # Tables /\ handlers' = handlers =>
              last'.op = "start_negotiation"
       /\ handlers' # handlers =>
              \E h \in Handlers :
                  /\ \A g \in Handlers \ {h} : handlers'[g] = handlers[g]
                  /\ \/ /\ Tables' = Tables
                        /\ handlers[h].pc \in {"idle", "awaiting"}
                     \/ /\ handlers[h].pc = "accepted"
                        /\ handlers'[h].pc \in {"awaiting", "answered"}
                        /\ StoreSection(h)]_vars

\* C37 witness: a seller's counter arrived while the buyer's offer on the
\* same negotiation was in flight; both have run, the counter first, and the
\* store holds the messages of both in that order and the state the offer,
\* the later of the two, leaves.
C37_Witness ==
    /\ handlers[1].op = "send_message"
    /\ handlers[2].op = "seller_respond_to_offer"
    /\ handlers[2].concurrent
    /\ handlers[1].nid = handlers[2].nid
    /\ handlers[1].pc = "answered"
    /\ handlers[2].pc = "answered"
    /\ Len(messages) = 3
    /\ messages[2].type = "counter_offer"
    /\ messages[3].type = "offer"
    /\ negotiations[handlers[1].nid].status = "pending"
    /\ negotiations[handlers[1].nid].last_offer_amount = handlers[1].amount

=============================================================================
